---- MODULE Spec2Model ----
(***************************************************************************)
(* Model of the MagicPort company/vessel scraper: the reconciliation store *)
(* (DatabaseManager in singel_company.py), the token/route resolver and    *)
(* the fleet fetcher (EnhancedMagicPortScraper), and the per-company       *)
(* orchestrator driven by the work queue loop of company/action.py.        *)
(*                                                                         *)
(* Text values are sequences of one-character strings so that lower(),     *)
(* strip() and the HTML clean-up are computed, not assumed.                *)
(***************************************************************************)
EXTENDS Integers, Sequences, FiniteSets, TLC

\* ------------------------------------------------------------------------
\* Bounds of the model
\* ------------------------------------------------------------------------
\* Largest number of rows in one fleet payload
MaxBatch == 2
\* Largest number of generic data-route elements on a page
MaxRoutes == 6

\* ------------------------------------------------------------------------
\* Text
\* ------------------------------------------------------------------------
\* Python None / SQL NULL for a text or record value
None == <<"<None>">>
\* an exception that is not a database error leaves the method
Raised == <<"<raise>">>
\* Python truthiness of an optional string
Truthy(s) == s # None /\ s # <<>>

LowerChar(c) ==
  CASE c = "A" -> "a"
    [] c = "B" -> "b"
    [] c = "E" -> "e"
    [] c = "F" -> "f"
    [] c = "G" -> "g"
    [] c = "R" -> "r"
    [] c = "S" -> "s"
    [] c = "V" -> "v"
    [] c = "Z" -> "z"
    [] OTHER -> c
\* str.lower()
Lower(s) == [i \in 1..Len(s) |-> LowerChar(s[i])]

RECURSIVE LStrip(_)
LStrip(s) == IF s # <<>> /\ Head(s) = " " THEN LStrip(Tail(s)) ELSE s
RECURSIVE RStrip(_)
RStrip(s) ==
  IF s # <<>> /\ s[Len(s)] = " " THEN RStrip(SubSeq(s, 1, Len(s) - 1)) ELSE s
\* str.strip()
Strip(s) == RStrip(LStrip(s))

\* Equality of two names under the utf8mb4_unicode_ci collation of the
\* vessel_companies table: case-insensitive, trailing spaces ignored.
CollationEq(a, b) == Lower(RStrip(a)) = Lower(RStrip(b))

\* ------------------------------------------------------------------------
\* Values used by the inputs
\* ------------------------------------------------------------------------
NameAb == <<"A", "b">>
NameZe == <<"Z", "e">>
\* the first name as the fleet table spells it: other case, padded
OwnerAbVariant == <<" ", "a", "B", " ">>
UnknownCompany ==
  <<"U","n","k","n","o","w","n"," ","C","o","m","p","a","n","y">>
AddressNotProvided ==
  <<"A","d","d","r","e","s","s"," ","n","o","t"," ",
    "p","r","o","v","i","d","e","d">>
AddrQuay == <<"Q", "1">>
\* role attribution values of a fleet row: a country slug and the name
\* slugs of the three companies
SlugNl == <<"n", "l">>
SlugAb == <<"a", "b">>
SlugCm == <<"c", "m">>
SlugIm == <<"i", "m">>

\* vessel_name fragments: a sequence of nodes, each a tag and its text
HtmlSpan == << [tag |-> "span", text |-> <<" ", "E", "G", " ">>] >>
HtmlLink == << [tag |-> "text", text |-> <<" ">>],
               [tag |-> "a", text |-> <<"A", "R", " ">>] >>
HtmlEmpty == <<>>

\* ------------------------------------------------------------------------
\* State
\* ------------------------------------------------------------------------
VARIABLES
  \* committed rows of table vessel_companies
  vessel_companies,
  \* committed rows of table company_fleet_vessels
  company_fleet_vessels,
  \* the open connection's view of both tables (uncommitted writes included)
  connection,
  \* the DatabaseManager method that ran last, its arguments and its outcome
  call,
  \* every pair of a company name insert_company_details was called with
  \* and the key it returned for it
  company_keys,
  \* the rendered company page the browser holds
  page,
  \* what fetch_company_page returned for it: csrf_token and fleet_route
  resolved,
  \* is_active of each row of the work queue table companies_directory
  companies_directory,
  \* where main and the scraper it awaits stand
  pc,
  \* the scraper of the current iteration: the queue row it was built for,
  \* its Playwright driver and browser, the company_info attribute, the
  \* locals of scrape_and_save_to_database and its return value
  scraper,
  \* the POST requests fetch_fleet_data has issued in this run, each with
  \* its parameter names and the response it got
  requests,
  \* the pipeline stages the current run has completed, in order
  stages,
  \* the backup files the current run has written
  backups,
  \* the loop iterations the current run of main has started
  iteration,
  \* the queue rows for which the current run of main has started a scrape,
  \* in order
  attempted,
  \* the database sessions of two scraper runs that work on the store at
  \* the same time: the company each works for, its batch and row index,
  \* the read view of its transaction, the result of its last look-up and
  \* the statements it has executed and not committed
  sessions

storeVars == <<vessel_companies, company_fleet_vessels, connection>>
resolverVars == <<page, resolved>>
runVars ==
  <<companies_directory, pc, scraper, requests, stages, backups, iteration,
    attempted>>
vars == <<vessel_companies, company_fleet_vessels, connection, call,
          company_keys,
          page, resolved, companies_directory, pc, scraper, requests,
          stages, backups, iteration, attempted, sessions>>

\* connection is None / closed
NoConnection == [open |-> FALSE, companies |-> <<>>, vessels |-> {}]
\* no DatabaseManager method has been called since the last return
NoCall == [op |-> "none"]

\* ------------------------------------------------------------------------
\* DatabaseManager (singel_company.py)
\* ------------------------------------------------------------------------
\* a lookup that finds no row
CompanyIdsByName_blind(companies, name) == {}
\* ids of the company rows whose name equals the given one in SQL
CompanyIdsByName(companies, name) ==
  {i \in 1..Len(companies) : CollationEq(companies[i].name, name)}

Min(S) == CHOOSE x \in S : \A y \in S : x <= y

\* the name insert_company_details stores for this company_data (line 288)
CompanyNameOf(company_data) ==
  IF Truthy(company_data.company_name)
  THEN company_data.company_name ELSE UnknownCompany
\* company_keys after a call that returned ret (0: no key)
KeysAfter(company_data, ret) ==
  IF ret = 0 THEN company_keys
  ELSE company_keys \cup {<<CompanyNameOf(company_data), ret>>}

\* insert_company_details that passes the address on as it received it
insert_company_details_nodefault(conn, company_data, dbError) ==
  LET company_name == IF Truthy(company_data.company_name)
                      THEN company_data.company_name ELSE UnknownCompany
      address == company_data.address
      existing == CompanyIdsByName(conn.companies, company_name)
      updated == [i \in 1..Len(conn.companies) |->
                    IF i \in existing
                    THEN [conn.companies[i] EXCEPT
                            !.name = company_name,
                            !.country = company_data.country,
                            !.address = address,
                            !.fleet_count = company_data.total_vessels,
                            !.website = company_data.website]
                    ELSE conn.companies[i]]
      new_company_id == Len(conn.companies) + 1
      inserted == Append(conn.companies,
                         [id |-> new_company_id, name |-> company_name,
                          country |-> company_data.country,
                          address |-> address,
                          fleet_count |-> company_data.total_vessels,
                          website |-> company_data.website])
  IN  IF dbError
      THEN [companies |-> conn.companies, tx |-> "rollback", ret |-> 0]
      ELSE IF existing # {}
      THEN [companies |-> updated, tx |-> "none", ret |-> Min(existing)]
      ELSE [companies |-> inserted, tx |-> "commit", ret |-> new_company_id]

\* insert_company_details: look the company up by name, update it (no
\* commit on this path) or insert it (commit); a database error rolls back.
\* tx says what the method did to the transaction. A missing country or
\* website is None and stored as NULL; a missing total_vessels is 0 here.
insert_company_details(conn, company_data, dbError) ==
  LET company_name == IF Truthy(company_data.company_name)
                      THEN company_data.company_name ELSE UnknownCompany
      address == IF Truthy(company_data.address)
                 THEN company_data.address ELSE AddressNotProvided
      existing == CompanyIdsByName(conn.companies, company_name)
      updated == [i \in 1..Len(conn.companies) |->
                    IF i \in existing
                    THEN [conn.companies[i] EXCEPT
                            !.name = company_name,
                            !.country = company_data.country,
                            !.address = address,
                            !.fleet_count = company_data.total_vessels,
                            !.website = company_data.website]
                    ELSE conn.companies[i]]
      new_company_id == Len(conn.companies) + 1
      inserted == Append(conn.companies,
                         [id |-> new_company_id, name |-> company_name,
                          country |-> company_data.country,
                          address |-> address,
                          fleet_count |-> company_data.total_vessels,
                          website |-> company_data.website])
  IN  IF dbError
      THEN [companies |-> conn.companies, tx |-> "rollback", ret |-> 0]
      ELSE IF existing # {}
      THEN [companies |-> updated, tx |-> "none", ret |-> Min(existing)]
      ELSE [companies |-> inserted, tx |-> "commit", ret |-> new_company_id]

\* get_company_name: the name of the row with this id; Raised stands for
\* the TypeError of result[0] when no row has the id.
get_company_name(companies, company_id) ==
  IF company_id \in 1..Len(companies)
  THEN companies[company_id].name ELSE Raised

\* find_vessel_by_imo whose query fails: the error path returns None for
\* every number
find_vessel_by_imo_lost(vessels, vessel_imo) == {}

\* find_vessel_by_imo: the rows with this register number, whatever their
\* company
find_vessel_by_imo(vessels, vessel_imo) ==
  {v \in vessels : v.vessel_imo = vessel_imo}

RECURSIVE GetText(_)
\* BeautifulSoup get_text(strip=True): the stripped strings, joined
GetText(nodes) ==
  IF nodes = <<>> THEN <<>>
  ELSE Strip(Head(nodes).text) \o GetText(Tail(nodes))

\* the text of the first span as the markup has it, not stripped
extract_vessel_name_raw(vessel_name_html) ==
  IF vessel_name_html = HtmlEmpty THEN None
  ELSE LET spans == {i \in 1..Len(vessel_name_html) :
                       vessel_name_html[i].tag = "span"}
       IN  IF spans # {}
           THEN vessel_name_html[Min(spans)].text
           ELSE GetText(vessel_name_html)

\* extract_vessel_name: the text of the first span, else the flattened text
extract_vessel_name(vessel_name_html) ==
  IF vessel_name_html = HtmlEmpty THEN None
  ELSE LET spans == {i \in 1..Len(vessel_name_html) :
                       vessel_name_html[i].tag = "span"}
       IN  IF spans # {}
           THEN Strip(vessel_name_html[Min(spans)].text)
           ELSE GetText(vessel_name_html)

\* the comparison without lower() and strip()
OwnerMatches_exact(registered_owner, current_company_name) ==
  /\ Truthy(registered_owner)
  /\ Truthy(current_company_name)
  /\ registered_owner = current_company_name

\* the comparison reduced to its two presence tests
OwnerMatches_present(registered_owner, current_company_name) ==
  /\ Truthy(registered_owner)
  /\ Truthy(current_company_name)

\* the comparison of lines 434-435
OwnerMatches(registered_owner, current_company_name) ==
  /\ Truthy(registered_owner)
  /\ Truthy(current_company_name)
  /\ Lower(Strip(registered_owner)) = Lower(Strip(current_company_name))

\* the role attribution columns that the column list of the INSERT (392-409)
\* and the SET lists of both UPDATE statements (437-463, 495-522) name:
\* registered_owner_company_name_slug is in none of them
WithRoles(v, vessel) ==
  [v EXCEPT
     !.registered_owner = vessel.registered_owner,
     !.registered_owner_company_imo = vessel.registered_owner_company_imo,
     !.registered_owner_company_country_slug =
        vessel.registered_owner_company_country_slug,
     !.registered_owner_total_distinct_vessels =
        vessel.registered_owner_total_distinct_vessels,
     !.commercial_manager = vessel.commercial_manager,
     !.commercial_manager_company_country_slug =
        vessel.commercial_manager_company_country_slug,
     !.commercial_manager_company_imo = vessel.commercial_manager_company_imo,
     !.commercial_manager_company_name_slug =
        vessel.commercial_manager_company_name_slug,
     !.commercial_manager_total_distinct_vessels =
        vessel.commercial_manager_total_distinct_vessels,
     !.ism_manager = vessel.ism_manager,
     !.ism_manager_company_country_slug =
        vessel.ism_manager_company_country_slug,
     !.ism_manager_company_imo = vessel.ism_manager_company_imo,
     !.ism_manager_company_name_slug = vessel.ism_manager_company_name_slug,
     !.ism_manager_total_distinct_vessels =
        vessel.ism_manager_total_distinct_vessels]

\* the UPDATE parameters bound one position off: vessel_name receives the
\* registered owner
WithAttributes_shifted(v, vessel, vessel_name) ==
  [WithRoles(v, vessel) EXCEPT !.vessel_name = vessel.registered_owner]

\* an UPDATE that leaves the attribute columns as they are
WithAttributes_unwritten(v, vessel, vessel_name) == v

\* the attribute columns both UPDATE statements and the INSERT write
WithAttributes(v, vessel, vessel_name) ==
  [WithRoles(v, vessel) EXCEPT !.vessel_name = vessel_name]

\* a row of company_fleet_vessels with the column defaults of the CREATE
\* TABLE statement: every nullable column NULL (0 for a numeric one)
DefaultRow(company_id, vessel_imo) ==
  [company_id |-> company_id, vessel_imo |-> vessel_imo,
   vessel_name |-> None,
   registered_owner |-> None,
   registered_owner_company_imo |-> 0,
   registered_owner_company_country_slug |-> None,
   registered_owner_company_name_slug |-> None,
   registered_owner_total_distinct_vessels |-> 0,
   commercial_manager |-> None,
   commercial_manager_company_country_slug |-> None,
   commercial_manager_company_imo |-> 0,
   commercial_manager_company_name_slug |-> None,
   commercial_manager_total_distinct_vessels |-> 0,
   ism_manager |-> None,
   ism_manager_company_country_slug |-> None,
   ism_manager_company_imo |-> 0,
   ism_manager_company_name_slug |-> None,
   ism_manager_total_distinct_vessels |-> 0]

\* the row the INSERT statement creates (392-412 with the parameters of
\* 549-577): the columns of its list, the defaults elsewhere
InsertedRow(company_id, vessel, vessel_name) ==
  [WithRoles(DefaultRow(company_id, vessel.vessel_imo), vessel)
     EXCEPT !.vessel_name = vessel_name]

\* UNIQUE KEY unique_company_vessel (company_id, vessel_imo): would giving
\* every row of this register number the company id collide?
ViolatesUniqueKey(vessels, vessel_imo) ==
  Cardinality({v \in vessels : v.vessel_imo = vessel_imo}) > 1
\* the same key on INSERT: is there a row of this company and number?
DuplicateEntry(vessels, company_id, vessel_imo) ==
  \E v \in vessels :
    v.company_id = company_id /\ v.vessel_imo = vessel_imo

\* the loop body without the test of lines 418-420
UpsertRow_noskip(companies, vessels, company_id, vessel, fail) ==
  LET vessel_imo == vessel.vessel_imo
      existing_vessel == find_vessel_by_imo(vessels, vessel_imo)
      vessel_name == extract_vessel_name(vessel.vessel_name)
      current_company_name == get_company_name(companies, company_id)
  IN  IF FALSE
      THEN [vessels |-> vessels, status |-> "ok"]
      ELSE IF existing_vessel # {}
      THEN IF current_company_name = Raised
           THEN [vessels |-> vessels, status |-> "raise"]
           ELSE IF OwnerMatches(vessel.registered_owner, current_company_name)
           THEN IF fail \/ ViolatesUniqueKey(vessels, vessel_imo)
                THEN [vessels |-> vessels, status |-> "error"]
                ELSE [vessels |->
                        {IF v \in existing_vessel
                         THEN [WithAttributes(v, vessel, vessel_name)
                                 EXCEPT !.company_id = company_id]
                         ELSE v : v \in vessels},
                      status |-> "ok"]
           ELSE IF fail
                THEN [vessels |-> vessels, status |-> "error"]
                ELSE [vessels |->
                        {IF v \in existing_vessel
                         THEN WithAttributes(v, vessel, vessel_name)
                         ELSE v : v \in vessels},
                      status |-> "ok"]
      ELSE IF fail \/ DuplicateEntry(vessels, company_id, vessel_imo)
           THEN [vessels |-> vessels, status |-> "error"]
           ELSE [vessels |->
                   vessels \cup
                     {InsertedRow(company_id, vessel, vessel_name)},
                 status |-> "ok"]

\* one iteration of the loop of insert_fleet_vessels; fail: the statement
\* this row executes raises a database error
UpsertRow(companies, vessels, company_id, vessel, fail) ==
  LET vessel_imo == vessel.vessel_imo
      existing_vessel == find_vessel_by_imo(vessels, vessel_imo)
      vessel_name == extract_vessel_name(vessel.vessel_name)
      current_company_name == get_company_name(companies, company_id)
  IN  IF vessel_imo = 0
      THEN [vessels |-> vessels, status |-> "ok"]
      ELSE IF existing_vessel # {}
      THEN IF current_company_name = Raised
           THEN [vessels |-> vessels, status |-> "raise"]
           ELSE IF OwnerMatches(vessel.registered_owner, current_company_name)
           THEN IF fail \/ ViolatesUniqueKey(vessels, vessel_imo)
                THEN [vessels |-> vessels, status |-> "error"]
                ELSE [vessels |->
                        {IF v \in existing_vessel
                         THEN [WithAttributes(v, vessel, vessel_name)
                                 EXCEPT !.company_id = company_id]
                         ELSE v : v \in vessels},
                      status |-> "ok"]
           ELSE IF fail
                THEN [vessels |-> vessels, status |-> "error"]
                ELSE [vessels |->
                        {IF v \in existing_vessel
                         THEN WithAttributes(v, vessel, vessel_name)
                         ELSE v : v \in vessels},
                      status |-> "ok"]
      ELSE IF fail \/ DuplicateEntry(vessels, company_id, vessel_imo)
           THEN [vessels |-> vessels, status |-> "error"]
           ELSE [vessels |->
                   vessels \cup
                     {InsertedRow(company_id, vessel, vessel_name)},
                 status |-> "ok"]

RECURSIVE UpsertRows(_, _, _, _, _, _)
\* the for loop of insert_fleet_vessels from row i on; it ends at the first
\* row that raises
UpsertRows(companies, vessels, company_id, vessels_data, failAt, i) ==
  IF i > Len(vessels_data) THEN [vessels |-> vessels, status |-> "ok"]
  ELSE LET r == UpsertRow(companies, vessels, company_id,
                          vessels_data[i], failAt = i)
       IN  IF r.status = "ok"
           THEN UpsertRows(companies, r.vessels, company_id, vessels_data,
                           failAt, i + 1)
           ELSE r

\* a database error commits what the rows before it wrote
insert_fleet_vessels_partial(conn, company_id, vessels_data, failAt) ==
  LET r == UpsertRows(conn.companies, conn.vessels, company_id,
                      vessels_data, failAt, 1)
  IN  CASE r.status = "ok" ->
             [vessels |-> r.vessels, tx |-> "commit", ret |-> TRUE,
              raised |-> FALSE]
        [] r.status = "error" ->
             [vessels |-> r.vessels, tx |-> "commit", ret |-> FALSE,
              raised |-> FALSE]
        [] OTHER ->
             [vessels |-> r.vessels, tx |-> "none", ret |-> FALSE,
              raised |-> TRUE]

\* the statement of lines 388-390 enabled: the rows of the company are
\* deleted before the batch is applied
insert_fleet_vessels_replacing(conn, company_id, vessels_data, failAt) ==
  LET kept == {v \in conn.vessels : v.company_id # company_id}
      r == UpsertRows(conn.companies, kept, company_id,
                      vessels_data, failAt, 1)
  IN  CASE r.status = "ok" ->
             [vessels |-> r.vessels, tx |-> "commit", ret |-> TRUE,
              raised |-> FALSE]
        [] r.status = "error" ->
             [vessels |-> conn.vessels, tx |-> "rollback", ret |-> FALSE,
              raised |-> FALSE]
        [] OTHER ->
             [vessels |-> r.vessels, tx |-> "none", ret |-> FALSE,
              raised |-> TRUE]

\* insert_fleet_vessels: commit after the whole batch, rollback on a
\* database error; any other exception leaves the method uncaught
insert_fleet_vessels(conn, company_id, vessels_data, failAt) ==
  LET r == UpsertRows(conn.companies, conn.vessels, company_id,
                      vessels_data, failAt, 1)
  IN  CASE r.status = "ok" ->
             [vessels |-> r.vessels, tx |-> "commit", ret |-> TRUE,
              raised |-> FALSE]
        [] r.status = "error" ->
             [vessels |-> conn.vessels, tx |-> "rollback", ret |-> FALSE,
              raised |-> FALSE]
        [] OTHER ->
             [vessels |-> r.vessels, tx |-> "none", ret |-> FALSE,
              raised |-> TRUE]

\* ------------------------------------------------------------------------
\* Token/route resolver (fetch_company_page, lines 881-998)
\* ------------------------------------------------------------------------
\* A page query finds no element, or raises; otherwise the value is what
\* get_attribute / evaluate returns (None, an empty or a non-empty string).
Absent == <<"<absent>">>
Raises == <<"<raises>">>

\* Methods 1, 2 and 4: query an element and read one attribute of it. The
\* assignment happens before the log line that slices the token, so a None
\* attribute is assigned and the TypeError of the slice is swallowed.
TokenFromElement(csrf_token, found) ==
  IF found = Absent \/ found = Raises THEN csrf_token ELSE found

\* Method 3: the result of the script evaluation is assigned unless the
\* evaluation raises
TokenFromScript(csrf_token, found) ==
  IF found = Raises THEN csrf_token
  ELSE IF found = Absent THEN None
  ELSE found

\* Method 2 run without its "if not csrf_token" guard
Method2_unguarded(csrf_token, p) == TokenFromElement(csrf_token, p.meta_token)

Method1(p) == TokenFromElement(None, p.meta_csrf)
Method2(csrf_token, p) ==
  IF ~Truthy(csrf_token) THEN TokenFromElement(csrf_token, p.meta_token)
  ELSE csrf_token
Method3(csrf_token, p) ==
  IF ~Truthy(csrf_token) THEN TokenFromScript(csrf_token, p.script)
  ELSE csrf_token
Method4(csrf_token, p) ==
  IF ~Truthy(csrf_token) THEN TokenFromElement(csrf_token, p.input)
  ELSE csrf_token

\* lines 881-950: the four methods in order, then the empty token
ResolveToken(p) ==
  LET csrf_token == Method4(Method3(Method2(Method1(p), p), p), p)
  IN  IF ~Truthy(csrf_token) THEN <<>> ELSE csrf_token

\* Python "sub in s"
Contains(s, sub) ==
  \E i \in 1..(Len(s) - Len(sub) + 1) : SubSeq(s, i, i + Len(sub) - 1) = sub

KwFleet == <<"f", "l", "e", "e", "t">>
KwVessel == <<"v", "e", "s", "s", "e", "l">>
KwShip == <<"s", "h", "i", "p">>
\* the test of line 971
SimilarRoute(route) ==
  \/ Contains(Lower(route), KwFleet)
  \/ Contains(Lower(route), KwVessel)
  \/ Contains(Lower(route), KwShip)

\* how many of the data-route values the loop of line 969 looks at
RouteScanLimit == 5

\* routes[:5]
ScannedRoutes(routes) ==
  SubSeq(routes, 1, IF Len(routes) < RouteScanLimit
                    THEN Len(routes) ELSE RouteScanLimit)

\* the url of the page's company: its country and company path segments,
\* or None when it does not contain /owners-managers/{country}/{company}
ConstructedRoute(company_url) ==
  IF company_url = None THEN None
  ELSE <<"https://magicport.ai/owners-managers/">> \o company_url
         \o <<"/fleets">>

\* lines 952-998: the fleet-tagged element, else the first similar value
\* among the scanned ones, else the first value, else the constructed
\* route; an exception anywhere in the block leaves no route
ResolveRoute(p, company_url) ==
  LET routes == p.routes
      tagged == {i \in 1..Len(routes) : Contains(routes[i], KwFleet)}
      scanned == ScannedRoutes(routes)
      similar == {i \in 1..Len(scanned) : SimilarRoute(scanned[i])}
  IN  IF p.route_query = Raises THEN None
      ELSE IF tagged # {} THEN routes[Min(tagged)]
      ELSE IF similar # {} THEN scanned[Min(similar)]
      ELSE IF routes # <<>> /\ routes[1] # <<>> THEN routes[1]
      ELSE ConstructedRoute(company_url)

\* ------------------------------------------------------------------------
\* Fleet data fetcher (fetch_fleet_data, try_alternative_approach)
\* ------------------------------------------------------------------------
\* the block indicator the code compares with
AttackError == "Attack !"
\* a JSON object of the fleet endpoint: the keys it has, its error text and
\* its rows. NoData is Python None.
NoData == [kind |-> "none"]
Payload(keys, error, data) ==
  [kind |-> "dict", keys |-> keys, error |-> error, data |-> data]
\* a response body that is not JSON (an HTML error page)
NotJson == [kind |-> "text", keys |-> {}, error |-> "", data |-> <<>>]
\* page.evaluate raises: the fetch itself fails, or response.json()
\* rejects because the body is not JSON (before the status is looked at)
EvaluateRaises(response) ==
  response.raised \/ response.data = NotJson
\* response_data.get('error') == 'Attack !'
IsBlocked(response_data) ==
  "error" \in response_data.keys /\ response_data.error = AttackError
\* truthiness of the value fetch_fleet_data returns
HasFleetData(fleet_data) ==
  fleet_data.kind = "dict" /\ fleet_data.keys # {}

\* parameter names of post_data (lines 1014-1028) and minimal_data
\* (lines 1083-1087)
PostDataKeys == {"draw", "columns", "start", "length", "search", "order"}
MinimalDataKeys == {"draw", "start", "length"}

\* try_alternative_approach that compares with another spelling of the
\* block indicator and so never sees a block
try_alternative_approach_unchecked(csrf_token, fleet_route, fallback) ==
  LET request == [kind |-> "fallback", params |-> MinimalDataKeys,
                  route |-> fleet_route, token |-> csrf_token,
                  response |-> fallback]
  IN  IF EvaluateRaises(fallback)
      THEN [fleet_data |-> NoData, requests |-> <<request>>]
      ELSE [fleet_data |-> fallback.data, requests |-> <<request>>]

\* try_alternative_approach: one POST with the minimal parameters; its
\* body is returned unless it is blocked or the request raises
try_alternative_approach(csrf_token, fleet_route, fallback) ==
  LET request == [kind |-> "fallback", params |-> MinimalDataKeys,
                  route |-> fleet_route, token |-> csrf_token,
                  response |-> fallback]
  IN  IF EvaluateRaises(fallback)
      THEN [fleet_data |-> NoData, requests |-> <<request>>]
      ELSE IF IsBlocked(fallback.data)
      THEN [fleet_data |-> NoData, requests |-> <<request>>]
      ELSE [fleet_data |-> fallback.data, requests |-> <<request>>]

\* fetch_fleet_data that gives up when the primary response is blocked
fetch_fleet_data_nofallback(csrf_token, fleet_route, primary, fallback) ==
  LET request == [kind |-> "primary", params |-> PostDataKeys,
                  route |-> fleet_route, token |-> csrf_token,
                  response |-> primary]
      alternative == try_alternative_approach(csrf_token, fleet_route,
                                              fallback)
  IN  IF EvaluateRaises(primary)
      THEN [alternative EXCEPT !.requests = <<request>> \o @]
      ELSE IF primary.status = 200
      THEN IF IsBlocked(primary.data)
           THEN [fleet_data |-> NoData, requests |-> <<request>>]
           ELSE [fleet_data |-> primary.data, requests |-> <<request>>]
      ELSE [fleet_data |-> NoData, requests |-> <<request>>]

\* fetch_fleet_data whose except clause returns None without the fallback
fetch_fleet_data_giveup(csrf_token, fleet_route, primary, fallback) ==
  LET request == [kind |-> "primary", params |-> PostDataKeys,
                  route |-> fleet_route, token |-> csrf_token,
                  response |-> primary]
      alternative == try_alternative_approach(csrf_token, fleet_route,
                                              fallback)
  IN  IF EvaluateRaises(primary)
      THEN [fleet_data |-> NoData, requests |-> <<request>>]
      ELSE IF primary.status = 200
      THEN IF IsBlocked(primary.data)
           THEN [alternative EXCEPT !.requests = <<request>> \o @]
           ELSE [fleet_data |-> primary.data, requests |-> <<request>>]
      ELSE [fleet_data |-> NoData, requests |-> <<request>>]

\* fetch_fleet_data from its try block on: the primary POST, then the
\* fallback when the response is blocked or the request raised
fetch_fleet_data(csrf_token, fleet_route, primary, fallback) ==
  LET request == [kind |-> "primary", params |-> PostDataKeys,
                  route |-> fleet_route, token |-> csrf_token,
                  response |-> primary]
      alternative == try_alternative_approach(csrf_token, fleet_route,
                                              fallback)
  IN  IF EvaluateRaises(primary)
      THEN [alternative EXCEPT !.requests = <<request>> \o @]
      ELSE IF primary.status = 200
      THEN IF IsBlocked(primary.data)
           THEN [alternative EXCEPT !.requests = <<request>> \o @]
           ELSE [fleet_data |-> primary.data, requests |-> <<request>>]
      ELSE [fleet_data |-> NoData, requests |-> <<request>>]

\* ------------------------------------------------------------------------
\* Inputs of the resolver
\* ------------------------------------------------------------------------
Token1 == <<"t", "1">>
Token2 == <<"t", "2">>
Token3 == <<"t", "3">>
Token4 == <<"t", "4">>
RouteFleet == <<"/", "a", "/", "f", "l", "e", "e", "t", "s">>
RouteFleetUpper == <<"/", "F", "l", "e", "e", "t">>
RouteVessel == <<"/", "v", "e", "s", "s", "e", "l", "s">>
RouteShip == <<"/", "S", "h", "i", "p", "s">>
RouteAbout == <<"/", "a", "b", "o", "u", "t">>
RouteValues ==
  {RouteFleet, RouteFleetUpper, RouteVessel, RouteShip, RouteAbout}
UrlAzNn == <<"azerbaijan", "/", "neptune-navigators-llc">>

NoPage == [kind |-> "none"]
NotResolved == [kind |-> "none"]
PlainPage ==
  [kind |-> "page", meta_csrf |-> Token1, meta_token |-> Absent,
   script |-> Absent, input |-> Absent, route_query |-> Absent,
   routes |-> <<RouteFleet>>, company_url |-> UrlAzNn]
\* what each token method can find on a page
Found(token) == {Absent, Raises, None, <<>>, token}
\* pages that differ in their token sources
TokenPages ==
  {[PlainPage EXCEPT !.meta_csrf = f[1], !.meta_token = f[2],
                     !.script = f[3], !.input = f[4]] :
     f \in Found(Token1) \X Found(Token2) \X Found(Token3)
           \X Found(Token4)}
\* pages that differ in their data-route elements
RoutePages ==
  {[PlainPage EXCEPT !.routes = r, !.route_query = q, !.company_url = u] :
     r \in UNION {[1..k -> RouteValues] : k \in 0..MaxRoutes},
     q \in {Absent}, u \in {UrlAzNn}}
  \cup
  {[PlainPage EXCEPT !.routes = r, !.route_query = q, !.company_url = u] :
     r \in {<<>>, <<RouteAbout>>, << <<>> >>}, q \in {Absent, Raises},
     u \in {UrlAzNn, None}}
ResolverPages == TokenPages \cup RoutePages

\* ------------------------------------------------------------------------
\* Inputs of the store
\* ------------------------------------------------------------------------
\* register numbers the fleet table can carry; 0 is a missing number
Imos == {1, 2}
\* a row of the fleet payload: register number, name fragment, claimed
\* owner; a row that names an owner carries the attribution of all three
\* roles, a row that names none carries nulls
FleetRow(vessel_imo, vessel_name, registered_owner) ==
  LET named == Truthy(registered_owner)
      Text(t) == IF named THEN t ELSE None
      Number(n) == IF named THEN n ELSE 0
  IN  [vessel_imo |-> vessel_imo, vessel_name |-> vessel_name,
       registered_owner |-> registered_owner,
       registered_owner_company_imo |-> Number(7),
       registered_owner_company_country_slug |-> Text(SlugNl),
       registered_owner_company_name_slug |-> Text(SlugAb),
       registered_owner_total_distinct_vessels |-> Number(2),
       commercial_manager |-> Text(SlugCm),
       commercial_manager_company_country_slug |-> Text(SlugNl),
       commercial_manager_company_imo |-> Number(8),
       commercial_manager_company_name_slug |-> Text(SlugCm),
       commercial_manager_total_distinct_vessels |-> Number(3),
       ism_manager |-> Text(SlugIm),
       ism_manager_company_country_slug |-> Text(SlugNl),
       ism_manager_company_imo |-> Number(9),
       ism_manager_company_name_slug |-> Text(SlugIm),
       ism_manager_total_distinct_vessels |-> Number(4)]
NullRow == FleetRow(0, HtmlEmpty, None)
\* the name fragment and the claimed owner of a fleet row
RowShapes ==
  { <<HtmlSpan, None>>, <<HtmlSpan, OwnerAbVariant>>,
    <<HtmlLink, OwnerAbVariant>> }
StoreRows ==
  {NullRow} \cup
  {FleetRow(n, s[1], s[2]) : n \in Imos, s \in RowShapes}
Batches(Rows, n) == UNION {[1..k -> Rows] : k \in 0..n}
StoreCompanyInfos ==
  [company_name : {NameAb, NameZe}, address : {AddrQuay},
   country : {SlugNl}, website : {None}, total_vessels : {1}]

\* what a method call did to the transaction, applied to the tables
Committed(tx, old, new) == IF tx = "commit" THEN new ELSE old
ConnectionAfter(tx, companies, vessels) ==
  IF tx = "rollback"
  THEN [open |-> TRUE, companies |-> vessel_companies,
        vessels |-> company_fleet_vessels]
  ELSE [open |-> TRUE, companies |-> companies, vessels |-> vessels]

\* ------------------------------------------------------------------------
\* Inputs of the pipeline
\* ------------------------------------------------------------------------
\* a run of main that makes two iterations
BatchSize_two == 1 + 1
\* iterations of one run of main (company/action.py line 64)
BatchSize == 1
UrlZzZe == <<"zanzibar", "/", "zeta">>
\* the rows of companies_directory, by id
Directory ==
  << [company_name |-> NameAb, magicport_url |-> UrlAzNn],
     [company_name |-> NameZe, magicport_url |-> UrlZzZe] >>

\* the scraper has no company_info attribute: extract_company_info has not
\* run, or it raised before line 819
NoInfo == [kind |-> "unset"]
\* a scraper as __init__ leaves it
NewScraper(company_id) ==
  [company_id |-> company_id, playwright |-> "unset", browser |-> "unset",
   company_info |-> NoInfo, database_company_id |-> 0, fleet_data |-> NoData,
   session |-> "none", navigations |-> 0, success |-> "running"]
NoScraper == NewScraper(0)

\* what extract_company_info can read from the page of a queue row
PipelineInfos(company_id) ==
  [company_name : {Directory[company_id].company_name},
   address : {AddrQuay}, country : {SlugNl}, website : {None},
   total_vessels : {1, 2}]
\* the pages a queue row's url can render to: with or without a token,
\* with a fleet-tagged route or a failing route query
PipelinePages(company_id) ==
  {[PlainPage EXCEPT !.meta_csrf = t, !.route_query = q,
                     !.company_url = Directory[company_id].magicport_url] :
     t \in {Token1, Absent}, q \in {Absent, Raises}}

PipelineRowA == FleetRow(1, HtmlSpan, OwnerAbVariant)
PipelineRowB == FleetRow(1, HtmlLink, None)
PipelineBatches ==
  { <<PipelineRowA>>, <<PipelineRowB>>, <<NullRow, PipelineRowA>> }
PayloadBlocked == Payload({"error"}, AttackError, <<>>)
PayloadEmpty == Payload({}, "", <<>>)
PayloadNoRows == Payload({"data"}, "", <<>>)
PipelinePayloads ==
  {PayloadBlocked, PayloadEmpty, PayloadNoRows}
  \cup {Payload({"data"}, "", b) : b \in PipelineBatches}
\* what a POST to the fleet route can come back with
Responses ==
  {[raised |-> TRUE]} \cup
  [raised : {FALSE}, status : {200}, data : PipelinePayloads] \cup
  [raised : {FALSE}, status : {500},
   data : {PayloadBlocked, Payload({"data"}, "", <<PipelineRowA>>),
           NotJson}]

\* two scraper processes started side by side, each with its own
\* DatabaseManager and connection
SessionIds == {1, 2}
\* a process that is not in insert_fleet_vessels
NoSession == [phase |-> "idle"]

\* ------------------------------------------------------------------------
\* Initial state: empty tables, no connection, no page
\* ------------------------------------------------------------------------
Init ==
  /\ vessel_companies = <<>>
  /\ company_fleet_vessels = {}
  /\ connection = NoConnection
  /\ call = NoCall
  /\ company_keys = {}
  /\ page = NoPage
  /\ resolved = NotResolved
  /\ companies_directory = [id \in DOMAIN Directory |-> FALSE]
  /\ pc = "idle"
  /\ scraper = NoScraper
  /\ requests = <<>>
  /\ stages = <<>>
  /\ backups = 0
  /\ iteration = 0
  /\ attempted = <<>>
  /\ sessions = [r \in SessionIds |-> NoSession]

\* ------------------------------------------------------------------------
\* The resolver on its own: a rendered page, then the resolution
\* ------------------------------------------------------------------------
\* the browser has rendered a company page
LoadPage ==
  /\ page = NoPage
  /\ page' \in ResolverPages
  /\ resolved' = NotResolved
  /\ UNCHANGED <<storeVars, call, company_keys, runVars, sessions>>

\* the token and route part of fetch_company_page
Resolve ==
  /\ page # NoPage
  /\ resolved = NotResolved
  /\ resolved' = [kind |-> "resolved", csrf_token |-> ResolveToken(page),
                  fleet_route |-> ResolveRoute(page, page.company_url)]
  /\ UNCHANGED <<storeVars, call, company_keys, page, runVars, sessions>>

NextResolver == LoadPage \/ Resolve

SpecResolver == Init /\ [][NextResolver]_vars

\* ------------------------------------------------------------------------
\* Properties of the resolver
\* ------------------------------------------------------------------------
\* what methods 1 to 4 find on the page, in priority order
TokenSources == <<page.meta_csrf, page.meta_token, page.script, page.input>>
\* a method yields a token: it finds a non-empty value
Yields(found) ==
  found # Absent /\ found # Raises /\ found # None /\ found # <<>>

\* C6: when method k yields a non-empty token and methods 1..k-1 do not,
\* the resolver returns exactly the value of method k.
C6_TokenPriorityOrder ==
  resolved.kind = "resolved" =>
    \A k \in 1..4 :
      (/\ Yields(TokenSources[k])
       /\ \A j \in 1..(k - 1) : ~Yields(TokenSources[j])) =>
        resolved.csrf_token = TokenSources[k]

\* method 3 decided: the two meta tags gave nothing usable (one query
\* raised, one attribute was missing) and the hidden input holds another
\* token
C6_Witness ==
  /\ resolved.kind = "resolved"
  /\ page.meta_csrf = Raises
  /\ page.meta_token = None
  /\ page.script = Token3
  /\ page.input = Token4
  /\ resolved.csrf_token = Token3

\* the data-route values that contain a fleet, vessel or ship keyword
SimilarIndexes ==
  {i \in 1..Len(page.routes) :
     \/ Contains(Lower(page.routes[i]), KwFleet)
     \/ Contains(Lower(page.routes[i]), KwVessel)
     \/ Contains(Lower(page.routes[i]), KwShip)}

\* C7: on a page without a fleet-tagged element whose data-route values
\* include one that contains "vessel", at any position, the resolver
\* returns the first value that contains fleet, vessel or ship.
C7_KeywordRouteSelected ==
  (/\ resolved.kind = "resolved"
   /\ page.route_query # Raises
   /\ \A i \in 1..Len(page.routes) : ~Contains(page.routes[i], KwFleet)
   /\ \E i \in 1..Len(page.routes) :
        Contains(Lower(page.routes[i]), KwVessel)) =>
    resolved.fleet_route = page.routes[Min(SimilarIndexes)]

\* C18: when the fleet-tagged element, the keyword scan and the first
\* data-route value give no route, or a page query among them raises, and
\* the company url has its country and company segments, the resolver
\* returns the route built from them with the fleets sub-path.
C18_RouteMissingOnly ==
  (/\ resolved.kind = "resolved"
   /\ page.company_url # None
   /\ \/ page.route_query = Raises
      \/ /\ \A i \in 1..Len(page.routes) :
              ~Contains(page.routes[i], KwFleet)
         /\ SimilarIndexes = {}
         /\ (page.routes = <<>> \/ page.routes[1] = <<>>)) =>
    resolved.fleet_route =
      <<"https://magicport.ai/owners-managers/">> \o page.company_url
        \o <<"/fleets">>

\* ------------------------------------------------------------------------
\* The store driven directly: a DatabaseManager and its callers' calls
\* ------------------------------------------------------------------------
\* connect()
StoreConnect ==
  /\ ~connection.open
  /\ call = NoCall
  /\ connection' = [open |-> TRUE, companies |-> vessel_companies,
                    vessels |-> company_fleet_vessels]
  /\ UNCHANGED <<vessel_companies, company_fleet_vessels, call, company_keys>>
  /\ UNCHANGED <<resolverVars, runVars, sessions>>

\* disconnect(): what was not committed is gone
StoreDisconnect ==
  /\ connection.open
  /\ call = NoCall
  /\ connection' = NoConnection
  /\ UNCHANGED <<vessel_companies, company_fleet_vessels, call, company_keys>>
  /\ UNCHANGED <<resolverVars, runVars, sessions>>

\* a call of insert_company_details
StoreInsertCompanyDetails ==
  /\ connection.open
  /\ call = NoCall
  /\ \E company_data \in StoreCompanyInfos, dbError \in BOOLEAN :
       LET r == insert_company_details(connection, company_data, dbError)
       IN  /\ vessel_companies' =
                Committed(r.tx, vessel_companies, r.companies)
           /\ company_fleet_vessels' =
                Committed(r.tx, company_fleet_vessels, connection.vessels)
           /\ connection' =
                ConnectionAfter(r.tx, r.companies, connection.vessels)
           /\ call' = [op |-> "insert_company_details",
                       company_data |-> company_data,
                       before |-> connection, ret |-> r.ret]
           /\ company_keys' = KeysAfter(company_data, r.ret)
  /\ UNCHANGED <<resolverVars, runVars, sessions>>

\* a call of insert_fleet_vessels with the key of a stored company
StoreInsertFleetVessels ==
  /\ connection.open
  /\ call = NoCall
  /\ \E company_id \in 1..Len(connection.companies),
        vessels_data \in Batches(StoreRows, MaxBatch) :
       \E failAt \in 0..Len(vessels_data) :
         LET r == insert_fleet_vessels(connection, company_id,
                                       vessels_data, failAt)
         IN  /\ vessel_companies' =
                  Committed(r.tx, vessel_companies, connection.companies)
             /\ company_fleet_vessels' =
                  Committed(r.tx, company_fleet_vessels, r.vessels)
             /\ connection' =
                  ConnectionAfter(r.tx, connection.companies, r.vessels)
             /\ call' = [op |-> "insert_fleet_vessels",
                         company_id |-> company_id,
                         vessels_data |-> vessels_data,
                         before |-> connection, ret |-> r.ret]
  /\ UNCHANGED <<company_keys, resolverVars, runVars, sessions>>

\* the caller takes the result
StoreReturn ==
  /\ call # NoCall
  /\ call' = NoCall
  /\ UNCHANGED <<storeVars, company_keys, resolverVars, runVars, sessions>>

NextStore ==
  \/ StoreConnect
  \/ StoreDisconnect
  \/ StoreInsertCompanyDetails
  \/ StoreInsertFleetVessels
  \/ StoreReturn

SpecStore == Init /\ [][NextStore]_vars

\* ------------------------------------------------------------------------
\* Properties of the reconciliation store
\* ------------------------------------------------------------------------
\* insert_fleet_vessels has just returned True
UpsertDone == call.op = "insert_fleet_vessels" /\ call.ret
\* the rows of the last batch that carry register number n
RowsOf(n) ==
  {i \in 1..Len(call.vessels_data) : call.vessels_data[i].vessel_imo = n}
\* the stored name of the company the last call ran for
CallCompanyName == call.before.companies[call.company_id].name
\* row i of the last batch claims the call's company as registered owner
RowClaimsCompany(i) ==
  LET owner == call.vessels_data[i].registered_owner
  IN  /\ owner # None
      /\ owner # <<>>
      /\ Lower(Strip(owner)) = Lower(Strip(CallCompanyName))
\* register number n was stored under another company before the last call
OwnedByOther(n) ==
  \E v \in call.before.vessels :
    v.vessel_imo = n /\ v.company_id # call.company_id

LastRowOf(n) ==
  call.vessels_data[CHOOSE i \in RowsOf(n) : \A j \in RowsOf(n) : j <= i]

UniqueImo(vessels) ==
  \A v, w \in vessels : v.vessel_imo = w.vessel_imo => v = w

HasNumber(vessel) == vessel.vessel_imo # 0
\* the batch without the rows that carry none
WithNumbers(vessels_data) == SelectSeq(vessels_data, HasNumber)

\* C19: after a successful upsert no stored row lacks a register number,
\* and the vessel table is the one the same call yields for the batch
\* without the rows that lack a register number.
C19_NullRowsSkipped ==
  UpsertDone =>
    LET r == insert_fleet_vessels(call.before, call.company_id,
                                  WithNumbers(call.vessels_data), 0)
    IN  /\ r.ret
        /\ r.vessels = company_fleet_vessels
        /\ \A v \in company_fleet_vessels : HasNumber(v)

\* a batch with a row without register number before a row with one
\* changed the store
C19_Witness ==
  /\ UpsertDone
  /\ Len(call.vessels_data) = 2
  /\ ~HasNumber(call.vessels_data[1])
  /\ HasNumber(call.vessels_data[2])
  /\ company_fleet_vessels # call.before.vessels

\* every row of the batch carries a register number and no two rows carry
\* the same one
DistinctNumbers(vessels_data) ==
  /\ \A i \in 1..Len(vessels_data) : HasNumber(vessels_data[i])
  /\ \A i, j \in 1..Len(vessels_data) :
       vessels_data[i].vessel_imo = vessels_data[j].vessel_imo => i = j
\* the name stored for the fragment <span> EG </span>
CleanNameEG == <<"E", "G">>

\* C21: a successful upsert of k rows with pairwise distinct register
\* numbers into an empty vessel store leaves exactly k vessel rows, one per
\* row of the batch, each owned by the call's company and named by the
\* clean name of the row's fragment; the fragment whose span holds EG is
\* stored as EG.
C21_InsertIntoEmptyStore ==
  (/\ UpsertDone
   /\ call.before.vessels = {}
   /\ DistinctNumbers(call.vessels_data)) =>
    /\ Cardinality(company_fleet_vessels) = Len(call.vessels_data)
    /\ \A i \in 1..Len(call.vessels_data) :
         \E v \in company_fleet_vessels :
           /\ v.vessel_imo = call.vessels_data[i].vessel_imo
           /\ v.company_id = call.company_id
           /\ v.vessel_name =
                extract_vessel_name(call.vessels_data[i].vessel_name)
           /\ call.vessels_data[i].vessel_name = HtmlSpan =>
                v.vessel_name = CleanNameEG

\* two rows with different numbers and different fragments were inserted
\* into the empty store
C21_Witness ==
  /\ UpsertDone
  /\ call.before.vessels = {}
  /\ DistinctNumbers(call.vessels_data)
  /\ Len(call.vessels_data) = 2
  /\ call.vessels_data[1].vessel_name = HtmlSpan
  /\ call.vessels_data[2].vessel_name = HtmlLink
  /\ Cardinality(company_fleet_vessels) = 2

\* the last call was insert_fleet_vessels and it reported failure
UpsertFailed == call.op = "insert_fleet_vessels" /\ ~call.ret
\* what the rows of the last batch write when no statement fails
WholeBatch ==
  UpsertRows(call.before.companies, call.before.vessels, call.company_id,
             call.vessels_data, 0, 1).vessels
\* what the first row of the last batch writes
FirstRowOnly ==
  UpsertRows(call.before.companies, call.before.vessels, call.company_id,
             SubSeq(call.vessels_data, 1, 1), 0, 1).vessels

RoleColumns ==
  {"registered_owner", "registered_owner_company_imo",
   "registered_owner_company_country_slug",
   "registered_owner_company_name_slug",
   "registered_owner_total_distinct_vessels",
   "commercial_manager", "commercial_manager_company_imo",
   "commercial_manager_company_country_slug",
   "commercial_manager_company_name_slug",
   "commercial_manager_total_distinct_vessels",
   "ism_manager", "ism_manager_company_imo",
   "ism_manager_company_country_slug",
   "ism_manager_company_name_slug",
   "ism_manager_total_distinct_vessels"}

\* C27: after a successful upsert, the stored row of every register
\* number the batch carries has, for each of the three roles, the five
\* attribution fields (name, company register number, country slug,
\* company name-slug, total distinct vessels) of the incoming row.
C27_RoleAttributionStored ==
  UpsertDone =>
    \A n \in Imos : RowsOf(n) # {} =>
      \A v \in company_fleet_vessels : v.vessel_imo = n =>
        \A column \in RoleColumns : v[column] = LastRowOf(n)[column]

\* the register numbers a vessel table holds
NumbersOf(vessels) == {v.vessel_imo : v \in vessels}
\* the keys a company table holds
KeysOf(companies) == {companies[i].id : i \in 1..Len(companies)}

\* C29: no step removes a committed company row or vessel row: the stored
\* company keys and the stored register numbers only grow and neither
\* table loses a row.
C29_NoDeletion ==
  [][/\ KeysOf(vessel_companies) \subseteq KeysOf(vessel_companies')
     /\ Len(vessel_companies) <= Len(vessel_companies')
     /\ NumbersOf(company_fleet_vessels) \subseteq
          NumbersOf(company_fleet_vessels')
     /\ Cardinality(company_fleet_vessels) <=
          Cardinality(company_fleet_vessels')]_vars

\* a company that had a vessel stored upserted a batch that names another
\* register number only, and the vessel is still stored under it
C29_Witness ==
  /\ UpsertDone
  /\ \E i \in 1..Len(call.vessels_data) : HasNumber(call.vessels_data[i])
  /\ \E v \in call.before.vessels :
       /\ v.company_id = call.company_id
       /\ RowsOf(v.vessel_imo) = {}
       /\ v \in company_fleet_vessels

\* the role attribution columns the statements of insert_fleet_vessels
\* write
WrittenRoleColumns == RoleColumns \ {"registered_owner_company_name_slug"}

NameAB == <<"A", "B">>
\* company_info as extract_company_info initialises it (711-718): nothing
\* was found on the page
InfoNothingFound ==
  [company_name |-> None, address |-> None, country |-> None,
   website |-> None, total_vessels |-> 0]
\* a named company of which only empty strings were found
InfoEmptyStrings ==
  [company_name |-> NameAb, address |-> <<>>, country |-> None,
   website |-> None, total_vessels |-> 1]
CompanyInfos ==
  [company_name : {NameAb, NameAB, NameZe, None}, address : {AddrQuay},
   country : {SlugNl}, website : {None}, total_vessels : {1, 2}]
  \cup {InfoNothingFound, InfoEmptyStrings}

\* a call of insert_company_details with one of these
CompaniesInsertCompanyDetails ==
  /\ connection.open
  /\ call = NoCall
  /\ \E company_data \in CompanyInfos, dbError \in BOOLEAN :
       LET r == insert_company_details(connection, company_data, dbError)
       IN  /\ vessel_companies' =
                Committed(r.tx, vessel_companies, r.companies)
           /\ company_fleet_vessels' =
                Committed(r.tx, company_fleet_vessels, connection.vessels)
           /\ connection' =
                ConnectionAfter(r.tx, r.companies, connection.vessels)
           /\ call' = [op |-> "insert_company_details",
                       company_data |-> company_data,
                       before |-> connection, ret |-> r.ret]
           /\ company_keys' = KeysAfter(company_data, r.ret)
  /\ UNCHANGED <<resolverVars, runVars, sessions>>

NextCompanies ==
  \/ StoreConnect
  \/ StoreDisconnect
  \/ CompaniesInsertCompanyDetails
  \/ StoreReturn

SpecCompanies == Init /\ [][NextCompanies]_vars

\* ------------------------------------------------------------------------
\* Properties of the company upsert
\* ------------------------------------------------------------------------
\* insert_company_details has just returned a company key
CompanyKeyReturned == call.op = "insert_company_details" /\ call.ret # 0

\* C14: when insert_company_details has returned a company key, nothing
\* it wrote is pending: the committed company table is the table the
\* connection sees.
C14_CommitPerCompanyUpsert ==
  CompanyKeyReturned => vessel_companies = connection.companies

\* no two rows of a company table carry the same name
UniqueNames(companies) ==
  \A i, j \in 1..Len(companies) :
    companies[i].name = companies[j].name => i = j

\* C20: no company table, committed or seen by the connection, has two
\* rows of one name; a key that insert_company_details returns is the key
\* of the row that carries the name of the call; and all keys returned
\* for one name are the same.
C20_CompanyUpsertByName ==
  /\ UniqueNames(vessel_companies)
  /\ UniqueNames(connection.companies)
  /\ CompanyKeyReturned =>
       /\ call.ret \in 1..Len(connection.companies)
       /\ connection.companies[call.ret].id = call.ret
       /\ connection.companies[call.ret].name =
            CompanyNameOf(call.company_data)
  /\ \A p, q \in company_keys : p[1] = q[1] => p[2] = q[2]

\* three companies are stored and a name got its key a second time, after
\* the row had carried the other spelling of the name
C20_Witness ==
  /\ CompanyKeyReturned
  /\ Len(vessel_companies) = 3
  /\ <<CompanyNameOf(call.company_data), call.ret>> \in company_keys
  /\ \E i \in 1..Len(call.before.companies) :
       /\ i = call.ret
       /\ call.before.companies[i].name # CompanyNameOf(call.company_data)
  /\ <<NameAb, call.ret>> \in company_keys
  /\ <<NameAB, call.ret>> \in company_keys

\* every row of a company table has a name and an address
NamedAndAddressed(companies) ==
  \A i \in 1..Len(companies) :
    Truthy(companies[i].name) /\ Truthy(companies[i].address)
\* the row the last call of insert_company_details wrote
WrittenRow == connection.companies[call.ret]

\* C30: every company row, committed or pending, has a non-empty name and
\* address; the row a call wrote has the name Unknown Company when the
\* call had no name, the address Address not provided when it had no
\* address, and null in country, website and fleet_count when the call
\* had none.
C30_NameAndAddressNotNull ==
  /\ NamedAndAddressed(vessel_companies)
  /\ NamedAndAddressed(connection.companies)
  /\ CompanyKeyReturned =>
       /\ ~Truthy(call.company_data.company_name) =>
            WrittenRow.name = UnknownCompany
       /\ ~Truthy(call.company_data.address) =>
            WrittenRow.address = AddressNotProvided
       /\ call.company_data.country = None => WrittenRow.country = None
       /\ call.company_data.website = None => WrittenRow.website = None
       /\ call.company_data.total_vessels = 0 => WrittenRow.fleet_count = 0

\* a call with nothing found on the page updated the row of an earlier
\* call and overwrote its country with null
C30_Witness ==
  /\ CompanyKeyReturned
  /\ call.company_data = InfoNothingFound
  /\ call.ret \in 1..Len(call.before.companies)
  /\ call.before.companies[call.ret].country = SlugNl
  /\ WrittenRow.name = UnknownCompany
  /\ WrittenRow.address = AddressNotProvided
  /\ WrittenRow.country = None

\* ------------------------------------------------------------------------
\* The pipeline: main (company/action.py) and scrape_and_save_to_database
\* ------------------------------------------------------------------------
\* the check of lines 1149-1150 on what fetch_company_page returned
PageFetched(csrf_token, fleet_route) ==
  Truthy(csrf_token) /\ Truthy(fleet_route)

\* the condition without its test of the company key
ShouldSaveFleet_nokey(fleet_data, database_company_id) ==
  /\ "data" \in fleet_data.keys
  /\ fleet_data.data # <<>>

\* the condition of line 1167 for the vessel upsert to run
ShouldSaveFleet(fleet_data, database_company_id) ==
  /\ "data" \in fleet_data.keys
  /\ fleet_data.data # <<>>
  /\ database_company_id # 0

\* a return statement inside the try block: the finally clause runs next
ReturnFrom(success) ==
  /\ scraper' = [scraper EXCEPT !.success = success]
  /\ pc' = "finally"

\* a run of main begins
Main ==
  /\ pc = "idle"
  /\ pc' = "loop"
  /\ iteration' = 0
  /\ attempted' = <<>>
  /\ UNCHANGED <<storeVars, call, company_keys,
                 resolverVars, companies_directory,
                 scraper, requests, stages, backups, sessions>>

\* the for loop is exhausted, main returns
MainExit ==
  /\ pc = "loop"
  /\ iteration = BatchSize
  /\ pc' = "idle"
  /\ UNCHANGED <<storeVars, call, company_keys,
                 resolverVars, companies_directory,
                 scraper, requests, stages, backups, iteration, attempted,
                 sessions>>

\* get_company and the scraper built for the row it returns: the inactive
\* row of lowest id; without one, or on a database error, the loop breaks
GetCompany ==
  /\ pc = "loop"
  /\ iteration < BatchSize
  /\ \E dbError \in BOOLEAN :
       LET records == {id \in DOMAIN Directory : ~companies_directory[id]}
       IN  IF dbError \/ records = {}
           THEN /\ pc' = "idle"
                /\ UNCHANGED <<scraper, requests, stages, backups, page,
                               resolved, iteration, attempted>>
           ELSE /\ pc' = "connect"
                /\ iteration' = iteration + 1
                /\ attempted' = Append(attempted, Min(records))
                /\ scraper' = NewScraper(Min(records))
                /\ requests' = <<>>
                /\ stages' = <<>>
                /\ backups' = 0
                /\ page' = NoPage
                /\ resolved' = NotResolved
  /\ UNCHANGED <<storeVars, call, company_keys, companies_directory,
                 sessions>>

\* db_manager.connect(), lines 1135-1137: a failure returns False before
\* the try block
Connect ==
  /\ pc = "connect"
  /\ \E connected \in BOOLEAN :
       IF connected
       THEN /\ connection' = [open |-> TRUE, companies |-> vessel_companies,
                              vessels |-> company_fleet_vessels]
            /\ pc' = "setup_browser"
            /\ UNCHANGED scraper
       ELSE /\ scraper' = [scraper EXCEPT !.success = "false"]
            /\ pc' = "returned"
            /\ UNCHANGED connection
  /\ UNCHANGED <<vessel_companies, company_fleet_vessels, call, company_keys,
                 resolverVars, companies_directory, requests, stages,
                 backups, iteration, attempted, sessions>>

\* setup_browser raising with no except clause around it in the
\* orchestrator: the finally clause runs and no result is produced
SetupBrowser_uncaught ==
  /\ pc = "setup_browser"
  /\ \E outcome \in {"ok", "start_raises", "launch_raises", "page_raises"} :
       /\ scraper' =
            [scraper EXCEPT
               !.playwright =
                  IF outcome = "start_raises" THEN "unset" ELSE "started",
               !.browser =
                  IF outcome \in {"ok", "page_raises"} THEN "open"
                  ELSE "unset"]
       /\ pc' = IF outcome = "ok" THEN "establish_session" ELSE "finally"
  /\ UNCHANGED <<storeVars, call, company_keys, resolverVars,
                 companies_directory, requests, stages, backups, iteration,
                 attempted, sessions>>

\* setup_browser: it can raise before Playwright has started, after it
\* has started and before self.browser is assigned, or later
SetupBrowser ==
  /\ pc = "setup_browser"
  /\ \E outcome \in {"ok", "start_raises", "launch_raises", "page_raises"} :
       /\ scraper' =
            [scraper EXCEPT
               !.playwright =
                  IF outcome = "start_raises" THEN "unset" ELSE "started",
               !.browser =
                  IF outcome \in {"ok", "page_raises"} THEN "open"
                  ELSE "unset",
               !.success = IF outcome = "ok" THEN @ ELSE "false"]
       /\ pc' = IF outcome = "ok" THEN "establish_session" ELSE "finally"
  /\ UNCHANGED <<storeVars, call, company_keys,
                 resolverVars, companies_directory,
                 requests, stages, backups, iteration, attempted, sessions>>

\* establish_session whose result the orchestrator does not test
EstablishSession_unchecked ==
  /\ pc = "establish_session"
  /\ \E established \in BOOLEAN :
       /\ stages' = IF established
                    THEN Append(stages, "session_established") ELSE stages
       /\ scraper' = [scraper EXCEPT
                        !.session =
                           IF established THEN "established" ELSE "failed",
                        !.success = IF established THEN @ ELSE "false"]
       /\ pc' = "fetch_company_page"
  /\ UNCHANGED <<storeVars, call, company_keys,
                 resolverVars, companies_directory,
                 requests, backups, iteration, attempted, sessions>>

\* establish_session and the check of lines 1144-1145
EstablishSession ==
  /\ pc = "establish_session"
  /\ \E established \in BOOLEAN :
       IF established
       THEN /\ stages' = Append(stages, "session_established")
            /\ pc' = "fetch_company_page"
            /\ scraper' = [scraper EXCEPT !.session = "established"]
       ELSE /\ scraper' = [scraper EXCEPT !.session = "failed",
                                          !.success = "false"]
            /\ pc' = "finally"
            /\ UNCHANGED stages
  /\ UNCHANGED <<storeVars, call, company_keys,
                 resolverVars, companies_directory,
                 requests, backups, iteration, attempted, sessions>>

\* fetch_company_page and the check of lines 1148-1150. The first goto
\* (or its wait) can raise, then the second goto is tried; a page titled
\* 404 and a failed navigation return (None, None); otherwise the company
\* info is extracted (or not, when extraction raises) and token and route
\* are resolved.
FetchCompanyPage ==
  /\ pc = "fetch_company_page"
  /\ \E nav \in {"loaded", "loaded_on_retry", "failed"},
        notFound \in BOOLEAN,
        p \in PipelinePages(scraper.company_id),
        info \in PipelineInfos(scraper.company_id) \cup {NoInfo} :
       LET usable == nav # "failed" /\ ~notFound
           csrf_token == IF usable THEN ResolveToken(p) ELSE None
           fleet_route == IF usable THEN ResolveRoute(p, p.company_url)
                          ELSE None
           fetched == PageFetched(csrf_token, fleet_route)
       IN  /\ page' = IF nav = "failed" THEN NoPage ELSE p
           /\ resolved' = [kind |-> "resolved", csrf_token |-> csrf_token,
                           fleet_route |-> fleet_route]
           /\ scraper' =
                [scraper EXCEPT
                   !.navigations = IF nav = "loaded" THEN 1 ELSE 2,
                   !.company_info =
                      IF usable THEN info ELSE @,
                   !.success = IF fetched THEN @ ELSE "false"]
           /\ pc' = IF fetched THEN "insert_company_details" ELSE "finally"
           /\ stages' = IF fetched
                        THEN Append(stages, "company_page_fetched")
                        ELSE stages
  /\ UNCHANGED <<storeVars, call, company_keys,
                 companies_directory, requests, backups,
                 iteration, attempted, sessions>>

\* lines 1152-1158: the company upsert, when company_info is set
InsertCompanyDetails ==
  /\ pc = "insert_company_details"
  /\ IF scraper.company_info # NoInfo
     THEN \E dbError \in BOOLEAN :
            LET r == insert_company_details(connection,
                                            scraper.company_info, dbError)
            IN  /\ vessel_companies' =
                     Committed(r.tx, vessel_companies, r.companies)
                /\ company_fleet_vessels' =
                     Committed(r.tx, company_fleet_vessels,
                               connection.vessels)
                /\ connection' =
                     ConnectionAfter(r.tx, r.companies, connection.vessels)
                /\ scraper' =
                     [scraper EXCEPT
                        !.database_company_id = r.ret,
                        !.success = IF r.ret = 0 THEN "false" ELSE @]
                /\ pc' = IF r.ret = 0 THEN "finally" ELSE "fetch_fleet_data"
                /\ stages' = IF r.ret = 0 THEN stages
                             ELSE Append(stages, "company_persisted")
                /\ company_keys' =
                     KeysAfter(scraper.company_info, r.ret)
     ELSE /\ pc' = "fetch_fleet_data"
          /\ UNCHANGED <<storeVars, scraper, stages, company_keys>>
  /\ UNCHANGED <<call, resolverVars, companies_directory, requests,
                 backups, iteration, attempted, sessions>>

\* fetch_fleet_data and the check of lines 1161-1164. The scroll before
\* the try block can raise; then no request is made and the exception
\* reaches the handler of the orchestrator.
FetchFleetData ==
  /\ pc = "fetch_fleet_data"
  /\ \/ /\ ReturnFrom("false")
        /\ UNCHANGED <<requests, stages>>
     \/ \E primary \in Responses, fallback \in Responses :
          LET r == fetch_fleet_data(resolved.csrf_token,
                                    resolved.fleet_route, primary, fallback)
              fetched == HasFleetData(r.fleet_data)
          IN  /\ requests' = r.requests
              /\ scraper' =
                   [scraper EXCEPT
                      !.fleet_data = r.fleet_data,
                      !.success = IF fetched THEN @ ELSE "false"]
              /\ pc' = IF fetched THEN "insert_fleet_vessels" ELSE "finally"
              /\ stages' = IF fetched THEN Append(stages, "fleet_fetched")
                           ELSE stages
  /\ UNCHANGED <<storeVars, call, company_keys,
                 resolverVars, companies_directory,
                 backups, iteration, attempted, sessions>>

\* lines 1166-1171: the vessel upsert, when the payload has rows and a
\* company key was obtained
InsertFleetVessels ==
  /\ pc = "insert_fleet_vessels"
  /\ IF ShouldSaveFleet(scraper.fleet_data, scraper.database_company_id)
     THEN \E failAt \in 0..Len(scraper.fleet_data.data) :
            LET r == insert_fleet_vessels(connection,
                                          scraper.database_company_id,
                                          scraper.fleet_data.data, failAt)
            IN  /\ vessel_companies' =
                     Committed(r.tx, vessel_companies, connection.companies)
                /\ company_fleet_vessels' =
                     Committed(r.tx, company_fleet_vessels, r.vessels)
                /\ connection' =
                     ConnectionAfter(r.tx, connection.companies, r.vessels)
                /\ scraper' =
                     [scraper EXCEPT !.success = IF r.ret THEN @ ELSE "false"]
                /\ pc' = IF r.ret THEN "save_json_backup" ELSE "finally"
                /\ stages' = IF r.ret THEN Append(stages, "fleet_persisted")
                             ELSE stages
     ELSE /\ pc' = "save_json_backup"
          /\ UNCHANGED <<storeVars, scraper, stages>>
  /\ UNCHANGED <<call, company_keys,
                 resolverVars, companies_directory, requests,
                 backups, iteration, attempted, sessions>>

\* save_json_backup and the return True of line 1177: a failed write is
\* swallowed, a failing makedirs reaches the handler of the orchestrator
SaveJsonBackup ==
  /\ pc = "save_json_backup"
  /\ \E outcome \in {"written", "write_fails", "makedirs_raises"} :
       /\ backups' = IF outcome = "written" THEN backups + 1 ELSE backups
       /\ ReturnFrom(IF outcome = "makedirs_raises" THEN "false"
                     ELSE "true")
  /\ UNCHANGED <<storeVars, call, company_keys,
                 resolverVars, companies_directory,
                 requests, stages, iteration, attempted, sessions>>

\* the finally clause, lines 1183-1190: disconnect, then browser.close()
\* and playwright.stop() inside one try whose exceptions are dropped
Finally ==
  /\ pc = "finally"
  /\ connection' = NoConnection
  /\ \E closeRaises \in BOOLEAN :
       LET closed == scraper.browser = "open" /\ ~closeRaises
       IN  /\ scraper' =
                [scraper EXCEPT
                   !.browser = IF closed THEN "closed" ELSE @,
                   !.playwright = IF closed THEN "stopped" ELSE @]
           /\ page' = IF closed THEN NoPage ELSE page
  /\ pc' = "returned"
  /\ UNCHANGED <<vessel_companies, company_fleet_vessels, call, company_keys,
                 resolved,
                 companies_directory, requests, stages, backups, iteration,
                 attempted, sessions>>

\* main that updates the queue row whatever the scrape returned
UpdateStatus_unconditional ==
  /\ pc = "returned"
  /\ \E updated \in BOOLEAN :
       companies_directory' =
         [companies_directory EXCEPT
            ![scraper.company_id] = IF updated THEN TRUE ELSE @]
  /\ pc' = "loop"
  /\ UNCHANGED <<storeVars, call, company_keys,
                 resolverVars, scraper, requests, stages,
                 backups, iteration, attempted, sessions>>

\* main, lines 89-98: update_company_status after a successful scrape; the
\* update can fail and is then only logged
UpdateStatus ==
  /\ pc = "returned"
  /\ IF scraper.success = "true"
     THEN \E updated \in BOOLEAN :
            companies_directory' =
              [companies_directory EXCEPT
                 ![scraper.company_id] = IF updated THEN TRUE ELSE @]
     ELSE UNCHANGED companies_directory
  /\ pc' = "loop"
  /\ UNCHANGED <<storeVars, call, company_keys,
                 resolverVars, scraper, requests, stages,
                 backups, iteration, attempted, sessions>>

Next ==
  \/ Main
  \/ MainExit
  \/ GetCompany
  \/ Connect
  \/ SetupBrowser
  \/ EstablishSession
  \/ FetchCompanyPage
  \/ InsertCompanyDetails
  \/ FetchFleetData
  \/ InsertFleetVessels
  \/ SaveJsonBackup
  \/ Finally
  \/ UpdateStatus

Spec == Init /\ [][Next]_vars

\* ------------------------------------------------------------------------
\* Two scraper runs for different companies on one store. Each has its own
\* connection (autocommit off, InnoDB default isolation): a SELECT reads
\* the snapshot its transaction took at its first read plus the session's
\* own writes; INSERT and UPDATE act on the latest committed rows and
\* become visible to the other session at commit.
\* ------------------------------------------------------------------------
\* the company_info of the run for queue row r
SessionInfo(r) ==
  [company_name |-> Directory[r].company_name, address |-> AddrQuay,
   country |-> SlugNl, website |-> None, total_vessels |-> 1]
\* the fleet payloads of the two runs
SessionBatches ==
  PipelineBatches \cup {<<FleetRow(2, HtmlSpan, None), PipelineRowB>>}
\* no read view yet: the transaction has not read since its last commit
NoSnapshot == [taken |-> FALSE, vessels |-> {}]

\* what one executed statement of the loop does to a vessel table
ApplyStatement(vessels, st) ==
  LET vessel_name == extract_vessel_name(st.vessel.vessel_name)
      matched(v) == v.vessel_imo = st.vessel.vessel_imo
  IN  CASE st.kind = "insert" ->
             vessels \cup
               {InsertedRow(st.company_id, st.vessel, vessel_name)}
        [] st.kind = "update_owner" ->
             {IF matched(v)
              THEN [WithAttributes(v, st.vessel, vessel_name)
                      EXCEPT !.company_id = st.company_id]
              ELSE v : v \in vessels}
        [] OTHER ->
             {IF matched(v)
              THEN WithAttributes(v, st.vessel, vessel_name)
              ELSE v : v \in vessels}

RECURSIVE ApplyStatements(_, _)
ApplyStatements(vessels, statements) ==
  IF statements = <<>> THEN vessels
  ELSE ApplyStatements(ApplyStatement(vessels, Head(statements)),
                       Tail(statements))

\* the statements a session has executed and not committed
Pending(r) ==
  IF sessions[r].phase = "idle" THEN <<>> ELSE sessions[r].pending
\* the register numbers a session holds locks on, by statement kind
LockedNumbers(r, kinds) ==
  {Pending(r)[k].vessel.vessel_imo :
     k \in {j \in 1..Len(Pending(r)) : Pending(r)[j].kind \in kinds}}
\* a statement waits for the other session: an UPDATE for every
\* uncommitted write on its register number, an INSERT for the index
\* range an uncommitted UPDATE has locked
Waits(r, kind, vessel_imo) ==
  \E o \in SessionIds \ {r} :
    vessel_imo \in
      LockedNumbers(o, IF kind = "insert"
                       THEN {"update_owner", "update_keep"}
                       ELSE {"insert", "update_owner", "update_keep"})

\* scrape_and_save_to_database up to the call of insert_fleet_vessels:
\* connect, the company upsert, a fleet payload. The SELECT of an
\* uncommitted company update has already taken the read view.
SessionBegin(r) ==
  /\ sessions[r].phase = "idle"
  /\ \E vessels_data \in SessionBatches :
       LET c == insert_company_details(
                  [open |-> TRUE, companies |-> vessel_companies,
                   vessels |-> company_fleet_vessels],
                  SessionInfo(r), FALSE)
       IN  /\ vessel_companies' =
                Committed(c.tx, vessel_companies, c.companies)
           /\ sessions' =
                [sessions EXCEPT ![r] =
                   [phase |-> "lookup", company_id |-> c.ret,
                    vessels_data |-> vessels_data, i |-> 1,
                    snapshot |->
                      IF c.tx = "commit" THEN NoSnapshot
                      ELSE [taken |-> TRUE,
                            vessels |-> company_fleet_vessels],
                    existing_vessel |-> {}, pending |-> <<>>]]
  /\ UNCHANGED <<company_fleet_vessels, connection, call, company_keys,
                 resolverVars, runVars>>

\* the head of the loop and find_vessel_by_imo for the next row
SessionLookup(r) ==
  LET s == sessions[r]
  IN  /\ s.phase = "lookup"
      /\ IF s.i > Len(s.vessels_data)
         THEN sessions' = [sessions EXCEPT ![r].phase = "commit"]
         ELSE IF s.vessels_data[s.i].vessel_imo = 0
         THEN sessions' = [sessions EXCEPT ![r].i = s.i + 1]
         ELSE LET snapshot ==
                    IF s.snapshot.taken THEN s.snapshot
                    ELSE [taken |-> TRUE, vessels |-> company_fleet_vessels]
                  view == ApplyStatements(snapshot.vessels, s.pending)
              IN  sessions' =
                    [sessions EXCEPT
                       ![r].snapshot = snapshot,
                       ![r].existing_vessel =
                          find_vessel_by_imo(view,
                            s.vessels_data[s.i].vessel_imo),
                       ![r].phase = "write"]
      /\ UNCHANGED <<storeVars, call, company_keys, resolverVars, runVars>>

\* the INSERT or UPDATE of the row; a database error (a key violation, a
\* lock wait that times out, any other) rolls the batch back
SessionWrite(r) ==
  LET s == sessions[r]
      vessel == s.vessels_data[s.i]
      current == ApplyStatements(company_fleet_vessels, s.pending)
      kind ==
        IF s.existing_vessel = {} THEN "insert"
        ELSE IF OwnerMatches(vessel.registered_owner,
                             get_company_name(vessel_companies,
                                              s.company_id))
        THEN "update_owner" ELSE "update_keep"
      violates ==
        \/ kind = "insert" /\
             DuplicateEntry(current, s.company_id, vessel.vessel_imo)
        \/ kind = "update_owner" /\
             ViolatesUniqueKey(current, vessel.vessel_imo)
  IN  /\ s.phase = "write"
      /\ \E fail \in BOOLEAN :
           IF fail \/ violates
           THEN sessions' = [sessions EXCEPT ![r] = NoSession]
           ELSE /\ ~Waits(r, kind, vessel.vessel_imo)
                /\ sessions' =
                     [sessions EXCEPT
                        ![r].pending =
                           Append(s.pending,
                                  [kind |-> kind, vessel |-> vessel,
                                   company_id |-> s.company_id]),
                        ![r].i = s.i + 1,
                        ![r].phase = "lookup"]
      /\ UNCHANGED <<storeVars, call, company_keys, resolverVars, runVars>>

\* the commit after the loop
SessionCommit(r) ==
  /\ sessions[r].phase = "commit"
  /\ company_fleet_vessels' =
       ApplyStatements(company_fleet_vessels, sessions[r].pending)
  /\ sessions' = [sessions EXCEPT ![r] = NoSession]
  /\ UNCHANGED <<vessel_companies, connection, call, company_keys,
                 resolverVars, runVars>>

NextInterleaved ==
  \E r \in SessionIds :
    \/ SessionBegin(r)
    \/ SessionLookup(r)
    \/ SessionWrite(r)
    \/ SessionCommit(r)

SpecInterleaved == Init /\ [][NextInterleaved]_vars

\* get_company returns a row: the queue table could be read and has an
\* unprocessed row
SelectsCompany == GetCompany /\ pc' = "connect"
\* update_company_status changed the row
MarksProcessed == UpdateStatus /\ companies_directory' # companies_directory

\* Repeated runs of main: the program is started again and again and
\* every started step ends; the queue table cannot be unreadable for
\* ever, and a status update cannot fail for ever.
SpecQueue ==
  /\ Spec
  /\ WF_vars(Next)
  /\ SF_vars(SelectsCompany)
  /\ SF_vars(MarksProcessed)

\* ------------------------------------------------------------------------
\* Properties of the pipeline
\* ------------------------------------------------------------------------
\* the current run has completed this stage
Passed(stage) == \E i \in 1..Len(stages) : stages[i] = stage

\* C5: when no token method succeeds and a route is resolved, the run goes
\* on past the page fetch with the empty token; the missing token alone
\* does not end the run.
C5_DegradedModeProceeds ==
  (/\ resolved.kind = "resolved"
   /\ resolved.csrf_token = <<>>
   /\ resolved.fleet_route # None
   /\ resolved.fleet_route # <<>>) =>
    Passed("company_page_fetched")

\* the response to the i-th request of the run is HTTP 200 with the block
\* indicator
BlockedWith200(i) ==
  /\ Len(requests) >= i
  /\ ~requests[i].response.raised
  /\ requests[i].response.status = 200
  /\ "error" \in requests[i].response.data.keys
  /\ requests[i].response.data.error = "Attack !"

\* C8: once the primary request has come back with HTTP 200 and the block
\* indicator, exactly one more request has been made, the fallback, and
\* it carries the parameters draw, start and length only.
C8_ExactlyOneFallback ==
  BlockedWith200(1) =>
    /\ requests[1].kind = "primary"
    /\ Len(requests) = 2
    /\ requests[2].kind = "fallback"
    /\ requests[2].params = {"draw", "start", "length"}

\* the primary request was blocked, the fallback was made and was blocked
\* too, and the fetch has declared failure
C8_Witness ==
  /\ BlockedWith200(1)
  /\ BlockedWith200(2)
  /\ scraper.fleet_data = NoData
  /\ pc = "finally"

\* the fallback request of the run came back with the block indicator
FallbackBlocked ==
  /\ Len(requests) = 2
  /\ requests[2].kind = "fallback"
  /\ ~requests[2].response.raised
  /\ "error" \in requests[2].response.data.keys
  /\ requests[2].response.data.error = "Attack !"

\* C9: when the fallback response is blocked, the fleet fetch returns no
\* data and the scrape returns False, and from then on in that run no
\* vessel row is written and the queue row of the company is not changed.
C9_FallbackBlockedIsTerminal ==
  [][/\ FallbackBlocked' =>
          /\ scraper'.fleet_data = NoData
          /\ scraper'.success = "false"
          /\ ~Passed("fleet_persisted")'
     /\ FallbackBlocked =>
          /\ company_fleet_vessels' = company_fleet_vessels
          /\ companies_directory' = companies_directory]_vars

\* a run whose primary and fallback requests were both blocked is over:
\* main has taken the result and the company is still unprocessed
C9_Witness ==
  /\ pc = "loop"
  /\ BlockedWith200(1)
  /\ FallbackBlocked
  /\ scraper.success = "false"
  /\ ~companies_directory[scraper.company_id]

\* C10: a run that returns True has completed session_established,
\* company_page_fetched, company_persisted, fleet_fetched and
\* fleet_persisted, each once and in this order.
C10_PipelineOrder ==
  scraper.success = "true" =>
    stages = <<"session_established", "company_page_fetched",
               "company_persisted", "fleet_fetched", "fleet_persisted">>

\* the scrape of the current iteration has failed
Failed == scraper.success = "false"
\* where control can be once a step has failed: the finally clause, the
\* return to main, main's loop head, or outside main
Halted == {"finally", "returned", "loop", "idle"}

\* C11: once a step of a company's run has failed, control is in the
\* finally clause or back in main, and until main builds the next scraper
\* the result stays False and no stage is completed, no request is sent,
\* no backup is written and no table row is committed.
C11_HaltOnFirstFailure ==
  [][/\ Failed' => pc' \in Halted
     /\ (Failed /\ pc' # "connect") =>
          /\ Failed'
          /\ stages' = stages
          /\ requests' = requests
          /\ backups' = backups
          /\ vessel_companies' = vessel_companies
          /\ company_fleet_vessels' = company_fleet_vessels]_vars

\* the vessel upsert failed after the four earlier stages, and the run
\* has returned False
C11_Witness ==
  /\ pc = "returned"
  /\ Failed
  /\ stages = <<"session_established", "company_page_fetched",
                "company_persisted", "fleet_fetched">>

\* C12: when main is back at its loop head after a scrape that returned
\* False, the queue row of that company is not in the state of a row that
\* was never attempted (is_active FALSE, as every row starts).
C12_FailureRecorded ==
  (pc = "loop" /\ attempted # <<>> /\ Failed) =>
    companies_directory[scraper.company_id] # FALSE

\* C13: within one run of main no queue row has its scrape started twice.
C13_NoRetryWithinRun ==
  \A i, j \in 1..Len(attempted) : attempted[i] = attempted[j] => i = j

\* main is back at its loop head after a failed scrape, the company is
\* still unprocessed, and the loop is exhausted
C13_Witness ==
  /\ pc = "loop"
  /\ Failed
  /\ attempted = <<scraper.company_id>>
  /\ ~companies_directory[scraper.company_id]
  /\ iteration = BatchSize

\* the vessel upsert of the current run was called and did not succeed:
\* its batch was rolled back
VesselBatchRolledBack ==
  /\ pc \in {"finally", "returned"}
  /\ Passed("fleet_fetched")
  /\ ~Passed("fleet_persisted")
  /\ Failed
  /\ ShouldSaveFleet(scraper.fleet_data, scraper.database_company_id)

\* C15: after the vessel batch of a run has been rolled back, the company
\* row of the key the company upsert of that run returned carries the
\* name, address and fleet count that upsert was given.
C15_CompanyRowSurvivesRollback ==
  VesselBatchRolledBack =>
    LET row == vessel_companies[scraper.database_company_id]
    IN  /\ row.name = CompanyNameOf(scraper.company_info)
        /\ row.address = scraper.company_info.address
        /\ row.fleet_count = scraper.company_info.total_vessels

\* C16: when scrape_and_save_to_database has returned and Playwright had
\* been started in it, the browser is closed and the driver is stopped.
C16_BrowserReleased ==
  (pc = "returned" /\ scraper.playwright # "unset") =>
    /\ scraper.browser = "closed"
    /\ scraper.playwright = "stopped"

\* C17: a step that leaves the pipeline before the backup step leaves it
\* with the result False; the finally clause is entered and left with a
\* boolean result; and whatever the result, main goes from the return of
\* the scrape to the head of its loop.
C17_FailureContained ==
  [][/\ (pc \notin {"save_json_backup", "finally", "returned"}
         /\ pc' \in {"finally", "returned"}) => scraper'.success = "false"
     /\ pc' \in {"finally", "returned"} =>
          scraper'.success \in {"true", "false"}
     /\ pc = "finally" =>
          (pc' = "returned" /\ scraper'.success = scraper.success)
     /\ pc = "returned" => pc' = "loop"]_vars

\* the browser launch raised inside setup_browser; the scrape returned
\* False and main is back at its loop head
C17_Witness ==
  /\ pc = "loop"
  /\ Failed
  /\ scraper.playwright = "started"
  /\ scraper.browser = "unset"
  /\ stages = <<>>

\* the committed tables and the open connection's view of them
NoPendingWrite ==
  connection.open =>
    /\ connection.companies = vessel_companies
    /\ connection.vessels = company_fleet_vessels

FetchSentinel ==
  /\ resolved.kind = "resolved"
  /\ resolved.csrf_token = None
  /\ resolved.fleet_route = None

\* C23: a fetch call navigates to the company url at most once, and a
\* call whose first navigation raised has returned the failure sentinel.
C23_NavigationNotRetried ==
  /\ scraper.navigations <= 1
  /\ scraper.navigations = 2 => FetchSentinel

\* C24: a run that has returned wrote exactly one backup if its fleet
\* fetch returned a payload and none if it did not.
C24_BackupOncePerFetch ==
  pc = "returned" =>
    IF Passed("fleet_fetched") THEN backups = 1 ELSE backups = 0

\* the primary request came back with an HTTP status other than 200
PrimaryNonSuccess ==
  /\ requests # <<>>
  /\ ~requests[1].response.raised
  /\ requests[1].response.status # 200

\* C25: whenever the primary response has a non-success HTTP status,
\* whatever its body, fetch_fleet_data has returned no fleet data.
C25_NonSuccessFails ==
  PrimaryNonSuccess => scraper.fleet_data = NoData

\* C28: a fetch issues at most two requests, first the primary one, then
\* at most one fallback; a fallback follows only a primary request that
\* raised or came back blocked, and every primary request that raised is
\* followed by the fallback.
C28_BoundedFleetRequests ==
  /\ Len(requests) <= 2
  /\ Len(requests) >= 1 => requests[1].kind = "primary"
  /\ Len(requests) = 2 =>
       /\ requests[2].kind = "fallback"
       /\ EvaluateRaises(requests[1].response) \/ BlockedWith200(1)
  /\ (Len(requests) >= 1 /\ EvaluateRaises(requests[1].response)) =>
       Len(requests) = 2

\* the primary request raised and the fallback delivered the fleet data
C28_Witness ==
  /\ Len(requests) = 2
  /\ requests[1].response.raised
  /\ requests[2].kind = "fallback"
  /\ HasFleetData(scraper.fleet_data)
  /\ Passed("fleet_fetched")

\* scrape_and_save_to_database has returned True
ReturnedTrue == pc = "returned" /\ scraper.success = "true"

\* C31: when scrape_and_save_to_database has returned True, the company
\* upsert ran in that run and the committed company table has the row of
\* the returned key with the values the upsert was given.
C31_SuccessImpliesCompany ==
  ReturnedTrue =>
    /\ Passed("company_persisted")
    /\ scraper.database_company_id \in 1..Len(vessel_companies)
    /\ LET row == vessel_companies[scraper.database_company_id]
       IN  /\ row.name = CompanyNameOf(scraper.company_info)
           /\ row.fleet_count = scraper.company_info.total_vessels

\* the payload the fleet fetch returned has rows
PayloadHasRows ==
  /\ scraper.fleet_data.kind = "dict"
  /\ "data" \in scraper.fleet_data.keys
  /\ scraper.fleet_data.data # <<>>

\* C32: when scrape_and_save_to_database has returned True and the fleet
\* fetch had returned a payload with rows, the vessel upsert of that run
\* was executed and committed.
C32_SuccessImpliesFleet ==
  (ReturnedTrue /\ PayloadHasRows) => Passed("fleet_persisted")

\* C33: a payload that fetch_fleet_data has returned is the body of a
\* response with HTTP status 200, namely of the last request made.
C33_OnlySuccessfulResponses ==
  scraper.fleet_data # NoData =>
    /\ requests # <<>>
    /\ ~requests[Len(requests)].response.raised
    /\ requests[Len(requests)].response.data = scraper.fleet_data
    /\ requests[Len(requests)].response.status = 200

\* C35: the queue status changes only in the step of main that follows a
\* scrape that returned True, and only for the company of that scrape,
\* which becomes processed.
C35_ProcessedOnlyAfterSuccess ==
  [][companies_directory' # companies_directory =>
       /\ ReturnedTrue
       /\ companies_directory' =
            [companies_directory EXCEPT ![scraper.company_id] = TRUE]]_vars

\* the first company was marked processed; the scrape of the second one
\* returned False and main is back at its loop head with the row unmarked
C35_Witness ==
  /\ pc = "loop"
  /\ scraper.company_id = 2
  /\ Failed
  /\ companies_directory[1]
  /\ ~companies_directory[2]

\* every vessel row of the table carries the key of a row of the company
\* table
Referenced(vessels, companies) ==
  \A v \in vessels : v.company_id \in KeysOf(companies)

\* C37: every vessel row, committed or pending, carries the key of an
\* existing company row; a step that changes the vessel table comes after
\* the company upsert of the same run, and every row it wrote carries the
\* key that upsert returned or the owner the row had before.
C37_ReferentialIntegrity ==
  [][/\ Referenced(company_fleet_vessels', vessel_companies')
     /\ connection'.open =>
          Referenced(connection'.vessels, connection'.companies)
     /\ company_fleet_vessels' # company_fleet_vessels =>
          /\ Passed("company_persisted")
          /\ scraper.database_company_id \in KeysOf(vessel_companies')
          /\ \A v \in company_fleet_vessels' \ company_fleet_vessels :
               \/ v.company_id = scraper.database_company_id
               \/ \E old \in company_fleet_vessels :
                    /\ old.vessel_imo = v.vessel_imo
                    /\ old.company_id = v.company_id]_vars

\* the second company's run has committed a vessel row under its own key
\* while the first company's row is stored
C37_Witness ==
  /\ ReturnedTrue
  /\ Passed("fleet_persisted")
  /\ Len(vessel_companies) = 2
  /\ scraper.database_company_id = 2
  /\ \E v \in company_fleet_vessels : v.company_id = 2

\* C34: across repeated runs of main the second company of the queue is
\* eventually selected for a scrape, whatever the scrapes of the first
\* company return.
C34_QueueProgress == <>(scraper.company_id = 2)

\* C36: when two runs for different companies interleave on the store, no
\* two committed vessel rows share a register number.
C36_UniqueUnderInterleaving == UniqueImo(company_fleet_vessels)
====
